---- MODULE Spec2Model ----
(***************************************************************************)
(* Risk Trajectory: the risk evaluation pipeline of ARNAB131/risk-trajectory *)
(* (threshold resolver, classifier, outcome inferencer, rolling window).     *)
(*                                                                           *)
(* The repository holds two copies of the engine: src/risk_engine.py, used   *)
(* by the Streamlit app (engine "app"), and                                  *)
(* src/backend-python/app/risk_engine.py, used by the FastAPI backend        *)
(* (engine "backend").  Where the copies differ both are modelled.           *)
(*                                                                           *)
(* Units.  Python floats are modelled as scaled integers:                    *)
(*   heart_rate, bp_systolic, bp_diastolic, oxygen_saturation : tenths       *)
(*   temperature                                              : hundredths   *)
(*   score                                                    : points       *)
(*   probability                                              : percent      *)
(*   timestamps, lookbacks                                    : seconds      *)
(*   a rate is a normalised fraction num/den of (vital unit) per minute.     *)
(***************************************************************************)
EXTENDS Integers, Sequences, FiniteSets, TLC

VARIABLES
    engine,     \* which copy of the engine runs: "app" or "backend"
    pc,         \* position of the evaluation under way
    profile,    \* the profile string handed to patient_thresholds
    th,         \* the Thresholds record in use
    v,          \* the vitals dict being evaluated
    rates,      \* the rates dict handed to classify_level
    res,        \* what classify_level computed (returned triple and its counters)
    level,      \* the level handed to infer_outcomes
    reasons,    \* the reasons handed to infer_outcomes
    outcomes,   \* what infer_outcomes returned
    data,       \* RollingWindow.data: the deque of (t_epoch, vitals)
    pushed,     \* every push call so far, as the caller made it
    rate,       \* the last return value of RollingWindow._rate, with its arguments
    conn,       \* the /ws connections (backend) or the one session (app): position, tick
    running,    \* the connection that holds the event loop, or 0 between awaits
    windows,    \* the windows dict: patient_id -> RollingWindow.data
    wallclock,  \* what time.time() reads
    db,         \* the rows handed to the vitals and the events table, and those committed
    book        \* bookkeeping of the ticks so far (not program state)

(* The variables of the single evaluations (classify, infer, one window).   *)
unitVars == <<pc, profile, th, v, rates, res, level, reasons, outcomes, data, pushed, rate>>

(* The variables of the running service.                                    *)
serverVars == <<conn, running, windows, wallclock, db, book>>

vars == <<engine, pc, profile, th, v, rates, res, level, reasons, outcomes,
          data, pushed, rate, conn, running, windows, wallclock, db, book>>

Engines == {"app", "backend"}

----------------------------------------------------------------------------
(* Arithmetic helpers                                                       *)

Abs(x) == IF x < 0 THEN -x ELSE x

Min(a, b) == IF a <= b THEN a ELSE b

Max(a, b) == IF a >= b THEN a ELSE b

RECURSIVE GCD(_, _)
GCD(a, b) == IF b = 0 THEN a ELSE GCD(b, a % b)

(* n/d (d > 0) rounded to the nearest integer, ties to even: what Python's  *)
(* format() does with a value whose half is exactly representable.          *)
RoundHalfEven(n, d) ==
    LET q == n \div d
        r == n % d
    IN  IF 2 * r < d THEN q
        ELSE IF 2 * r > d THEN q + 1
        ELSE IF q % 2 = 0 THEN q ELSE q + 1

(* f"{x:.0f}" of a value held in tenths: the printed integer.               *)
Fmt0(x) == RoundHalfEven(x, 10)

(* f"{x:.1f}" of a temperature held in hundredths: the printed tenths.      *)
Fmt1(x) == RoundHalfEven(x, 10)

(* A rate: the fraction num/den in lowest terms, den > 0.                   *)
Frac(n, d) ==
    LET g == GCD(Abs(n), d)
    IN  [num |-> n \div g, den |-> d \div g]

(* rate >= k and rate <= k for an integer k.                                *)
RateGE(r, k) == r.num >= k * r.den

RateLE(r, k) == r.num <= k * r.den

(* f"{rate:.1f}" of a rate of a vital held in tenths: the printed tenths.   *)
FmtRate(r) == RoundHalfEven(r.num, r.den)

(* f"{abs(rate):.1f}"                                                       *)
FmtAbsRate(r) == RoundHalfEven(Abs(r.num), r.den)

----------------------------------------------------------------------------
(* Thresholds and patient_thresholds                                        *)

AthleteTable ==
    [hr_red |-> 1400, spo2_red |-> 920, sys_red |-> 1700, dia_red |-> 1100,
     temp_red_hi |-> 3900, temp_red_lo |-> 3500,
     hr_yellow |-> 1050, spo2_yellow |-> 950, sys_yellow |-> 1450, dia_yellow |-> 950,
     temp_yellow_hi |-> 3800, temp_yellow_lo |-> 3600]

HypertensiveTable ==
    [hr_red |-> 1500, spo2_red |-> 920, sys_red |-> 1800, dia_red |-> 1200,
     temp_red_hi |-> 3900, temp_red_lo |-> 3500,
     hr_yellow |-> 1100, spo2_yellow |-> 950, sys_yellow |-> 1550, dia_yellow |-> 1000,
     temp_yellow_hi |-> 3800, temp_yellow_lo |-> 3600]

(* A mutant of CriticalTable: the SpO2 warning line set on the red line.    *)
CriticalTable_Slip ==
    [hr_red |-> 1350, spo2_red |-> 900, sys_red |-> 1650, dia_red |-> 1050,
     temp_red_hi |-> 3900, temp_red_lo |-> 3500,
     hr_yellow |-> 1050, spo2_yellow |-> 900, sys_yellow |-> 1450, dia_yellow |-> 950,
     temp_yellow_hi |-> 3800, temp_yellow_lo |-> 3600]

CriticalTable ==
    [hr_red |-> 1350, spo2_red |-> 900, sys_red |-> 1650, dia_red |-> 1050,
     temp_red_hi |-> 3900, temp_red_lo |-> 3500,
     hr_yellow |-> 1050, spo2_yellow |-> 940, sys_yellow |-> 1450, dia_yellow |-> 950,
     temp_yellow_hi |-> 3800, temp_yellow_lo |-> 3600]

NormalTable ==
    [hr_red |-> 1500, spo2_red |-> 920, sys_red |-> 1700, dia_red |-> 1100,
     temp_red_hi |-> 3900, temp_red_lo |-> 3500,
     hr_yellow |-> 1100, spo2_yellow |-> 950, sys_yellow |-> 1500, dia_yellow |-> 950,
     temp_yellow_hi |-> 3800, temp_yellow_lo |-> 3600]

patient_thresholds(p) ==
    IF p = "athlete" THEN AthleteTable
    ELSE IF p = "hypertensive" THEN HypertensiveTable
    ELSE IF p = "critical" THEN CriticalTable
    ELSE NormalTable

----------------------------------------------------------------------------
(* classify_level                                                           *)

Levels == {"green", "yellow", "orange", "red"}

(* A reason string: the f-string's template (kind) and the numbers it       *)
(* prints, as printed.  Two reasons are the same string iff they are the    *)
(* same record.                                                             *)
Reason(kind, a, b, c, d) == [kind |-> kind, a |-> a, b |-> b, c |-> c, d |-> d]

(* f"HR {v['heart_rate']:.0f} >= {th.hr_red:.0f}"                           *)
HrRedReason(vit, t) == Reason("hr_red", Fmt0(vit.heart_rate), Fmt0(t.hr_red), 0, 0)

(* One triggered check: the reason it formats, the points it adds to score, *)
(* and whether it appends the reason to reasons.                            *)
Hit(r, pts) == [reason |-> r, pts |-> pts, appended |-> TRUE]

QuietHit(r, pts) == [reason |-> r, pts |-> pts, appended |-> FALSE]

When(cond, hit) == IF cond THEN <<hit>> ELSE <<>>

(* A mutant of HrRedCheck: the comparison turned round.                     *)
HrRedCheck_Flipped(vit, t) == When(vit.heart_rate <= t.hr_red, Hit(HrRedReason(vit, t), 25))

(* if v["heart_rate"] >= th.hr_red: the first RED check.                    *)
HrRedCheck(vit, t) == When(vit.heart_rate >= t.hr_red, Hit(HrRedReason(vit, t), 25))

(* The four RED checks, in order: each hit is red_hits += 1, score += pts,  *)
(* reasons.append(...).                                                     *)
RedChecks(vit, t) ==
    HrRedCheck(vit, t)
    \o When(vit.oxygen_saturation <= t.spo2_red,
            Hit(Reason("spo2_red", Fmt0(vit.oxygen_saturation), Fmt0(t.spo2_red), 0, 0), 30))
    \o When(vit.bp_systolic >= t.sys_red \/ vit.bp_diastolic >= t.dia_red,
            Hit(Reason("bp_red", Fmt0(vit.bp_systolic), Fmt0(vit.bp_diastolic),
                       Fmt0(t.sys_red), Fmt0(t.dia_red)), 25))
    \o When(vit.temperature >= t.temp_red_hi \/ vit.temperature <= t.temp_red_lo,
            Hit(Reason("temp_red", Fmt1(vit.temperature), Fmt1(t.temp_red_lo),
                       Fmt1(t.temp_red_hi), 0), 15))

(* A mutant of TrendBoosts: the SpO2 boost compares with +2, not -2.        *)
TrendBoosts_SignSlip(rt) ==
    When(RateGE(rt.heart_rate, 150),
         Hit(Reason("hr_rate", FmtRate(rt.heart_rate), 0, 0, 0), 10))
    \o When(RateLE(rt.oxygen_saturation, 20),
            Hit(Reason("spo2_rate", FmtAbsRate(rt.oxygen_saturation), 0, 0, 0), 15))
    \o When(RateGE(rt.bp_systolic, 100),
            Hit(Reason("sys_rate", FmtRate(rt.bp_systolic), 0, 0, 0), 10))

(* The three trend boosts, in order: score += pts, reasons.append(...).     *)
TrendBoosts(rt) ==
    When(RateGE(rt.heart_rate, 150),
         Hit(Reason("hr_rate", FmtRate(rt.heart_rate), 0, 0, 0), 10))
    \o When(RateLE(rt.oxygen_saturation, -20),
            Hit(Reason("spo2_rate", FmtAbsRate(rt.oxygen_saturation), 0, 0, 0), 15))
    \o When(RateGE(rt.bp_systolic, 100),
            Hit(Reason("sys_rate", FmtRate(rt.bp_systolic), 0, 0, 0), 10))

(* f"HR {v['heart_rate']:.0f} >= {th.hr_yellow:.0f} (warning)"              *)
HrYellowReason(vit, t) == Reason("hr_yellow", Fmt0(vit.heart_rate), Fmt0(t.hr_yellow), 0, 0)

(* The heart-rate yellow check of src/risk_engine.py: always appends.       *)
HrYellowCheck(vit, t) ==
    When(vit.heart_rate >= t.hr_yellow, Hit(HrYellowReason(vit, t), 8))

(* A mutant of BackendHrYellowCheck: the reason is appended whatever the    *)
(* list holds.                                                              *)
BackendHrYellowCheck_Unconditional(vit, t, sofar) ==
    When(vit.heart_rate >= t.hr_yellow, Hit(HrYellowReason(vit, t), 8))

(* The heart-rate yellow check of the backend copy: counts and scores, but  *)
(* appends only if the red heart-rate string is not among the reasons so    *)
(* far.                                                                     *)
BackendHrYellowCheck(vit, t, sofar) ==
    When(vit.heart_rate >= t.hr_yellow,
         IF \E i \in 1..Len(sofar) : sofar[i] = HrRedReason(vit, t)
         THEN QuietHit(HrYellowReason(vit, t), 8)
         ELSE Hit(HrYellowReason(vit, t), 8))

(* The yellow checks after the heart-rate one, the same in both copies:     *)
(* each hit is warn_hits += 1, score += pts, reasons.append(...).           *)
YellowRest(vit, t) ==
    When(vit.oxygen_saturation <= t.spo2_yellow,
         Hit(Reason("spo2_yellow", Fmt0(vit.oxygen_saturation), Fmt0(t.spo2_yellow), 0, 0),
             10))
    \o When(vit.bp_systolic >= t.sys_yellow \/ vit.bp_diastolic >= t.dia_yellow,
            Hit(Reason("bp_yellow", Fmt0(vit.bp_systolic), Fmt0(vit.bp_diastolic), 0, 0), 8))
    \o When(vit.temperature >= t.temp_yellow_hi \/ vit.temperature <= t.temp_yellow_lo,
            Hit(Reason("temp_yellow", Fmt1(vit.temperature), 0, 0, 0), 6))

(* The reasons a run of hits appended, in order.                            *)
RECURSIVE ReasonsOf(_)
ReasonsOf(hits) ==
    IF hits = <<>> THEN <<>>
    ELSE (IF Head(hits).appended THEN <<Head(hits).reason>> ELSE <<>>)
         \o ReasonsOf(Tail(hits))

(* The points a run of hits added to score.                                 *)
RECURSIVE PointsOf(_)
PointsOf(hits) == IF hits = <<>> THEN 0 ELSE Head(hits).pts + PointsOf(Tail(hits))

(* A mutant of ClampScore: no clamp.                                        *)
ClampScore_Unclamped(score) == score

(* score = max(0.0, min(100.0, score))                                      *)
ClampScore(score) == Max(0, Min(100, score))

(* A mutant of DecideLevel: red on any red hit, whatever the score.         *)
DecideLevel_NoScoreGate(red_hits, warn_hits, score) ==
    IF red_hits >= 1 THEN "red"
    ELSE IF score >= 45 \/ warn_hits >= 2 THEN "orange"
    ELSE IF warn_hits >= 1 \/ score >= 20 THEN "yellow"
    ELSE "green"

(* A mutant of DecideLevel: orange from a score of 35 on, not 45.            *)
DecideLevel_OrangeFrom35(red_hits, warn_hits, score) ==
    IF red_hits >= 1 /\ score >= 55 THEN "red"
    ELSE IF red_hits >= 1 \/ score >= 35 \/ warn_hits >= 2 THEN "orange"
    ELSE IF warn_hits >= 1 \/ score >= 20 THEN "yellow"
    ELSE "green"

(* The level decision: the first matching return.                           *)
DecideLevel(red_hits, warn_hits, score) ==
    IF red_hits >= 1 /\ score >= 55 THEN "red"
    ELSE IF red_hits >= 1 \/ score >= 45 \/ warn_hits >= 2 THEN "orange"
    ELSE IF warn_hits >= 1 \/ score >= 20 THEN "yellow"
    ELSE "green"

(* What classify_level returns after the hits of its three blocks, with its *)
(* two counters as they stand at the return.                                *)
ClassifyReturn(red, boosts, yellow) ==
    [level |-> DecideLevel(Len(red), Len(yellow),
                           ClampScore(PointsOf(red) + PointsOf(boosts) + PointsOf(yellow))),
     reasons |-> ReasonsOf(red) \o ReasonsOf(boosts) \o ReasonsOf(yellow),
     score |-> ClampScore(PointsOf(red) + PointsOf(boosts) + PointsOf(yellow)),
     red_hits |-> Len(red),
     warn_hits |-> Len(yellow)]

(* classify_level of src/risk_engine.py                                     *)
classify_level(vit, t, rt) ==
    ClassifyReturn(RedChecks(vit, t), TrendBoosts(rt),
                   HrYellowCheck(vit, t) \o YellowRest(vit, t))

(* classify_level of src/backend-python/app/risk_engine.py                  *)
backend_classify_level(vit, t, rt) ==
    ClassifyReturn(RedChecks(vit, t), TrendBoosts(rt),
                   BackendHrYellowCheck(vit, t,
                                        ReasonsOf(RedChecks(vit, t)) \o ReasonsOf(TrendBoosts(rt)))
                   \o YellowRest(vit, t))

EngineClassify(e, vit, t, rt) ==
    IF e = "app" THEN classify_level(vit, t, rt) ELSE backend_classify_level(vit, t, rt)

----------------------------------------------------------------------------
(* infer_outcomes                                                           *)

(* reasons[:n]                                                              *)
Take(seq, n) == SubSeq(seq, 1, Min(n, Len(seq)))

(* A fixed lead-in phrase of a because list, as a reason string.            *)
Lead(text) == Reason(text, 0, 0, 0, 0)

(* The "action" strings of src/risk_engine.py.                              *)
AppActions ==
    [cardiac |-> "Immediate clinician review; ECG + troponin; oxygen support if needed.",
     stroke |-> "Urgent BP management; neuro checks; emergency protocol if needed.",
     respiratory |-> "Check airway; oxygen; evaluate pulmonary causes.",
     sepsis |-> "Clinical assessment; labs; fluids per protocol if indicated.",
     fallback |-> "Repeat vitals; verify sensors; clinician evaluation."]

(* The "suggested_action" strings of the backend copy.                      *)
BackendActions ==
    [cardiac |-> "Immediate clinician review; ECG + troponin; oxygen support if needed.",
     stroke |-> "Urgent BP management; neuro checks; consider emergency protocol.",
     respiratory |-> "Check airway; oxygen; consider ABG; evaluate pulmonary causes.",
     sepsis |-> "Clinical assessment; labs; cultures; fluids per protocol if indicated.",
     fallback |-> "Repeat vitals; verify sensors; clinician evaluation."]

CardiacPattern(vit) ==
    vit.heart_rate >= 1300 /\ (vit.bp_systolic >= 1700 \/ vit.oxygen_saturation <= 920)

(* A mutant of StrokePattern: both pressures must be high.                  *)
StrokePattern_Both(vit) == vit.bp_systolic >= 1800 /\ vit.bp_diastolic >= 1200

StrokePattern(vit) == vit.bp_systolic >= 1800 \/ vit.bp_diastolic >= 1200

RespiratoryPattern(vit) == vit.oxygen_saturation <= 900

(* A mutant of SepsisPattern: fever alone.                                   *)
SepsisPattern_FeverAlone(vit) == vit.temperature >= 3850

SepsisPattern(vit) == vit.temperature >= 3850 /\ vit.heart_rate >= 1200

(* 0.75 if level == "red" else 0.55, and the like                           *)
IfRed(lvl, hi, lo) == IF lvl = "red" THEN hi ELSE lo

IfOrangeOrRed(lvl, hi, lo) == IF lvl \in {"orange", "red"} THEN hi ELSE lo

(* A mutant of FallbackApplies: the level alone decides.                    *)
FallbackApplies_LevelOnly(outs, lvl) == lvl \in {"orange", "red"}

(* if not outcomes and level in ("orange", "red")                           *)
FallbackApplies(outs, lvl) == Len(outs) = 0 /\ lvl \in {"orange", "red"}

(* The body shared by both copies: four independent ifs, then the fallback. *)
InferRules(act, vit, lvl, rs) ==
    LET o0 == <<>>
        o1 == IF CardiacPattern(vit)
              THEN Append(o0, [name |-> "Acute cardiac event risk",
                               probability |-> IfRed(lvl, 75, 55),
                               because |-> <<Lead("High HR with high BP or low SpO2")>>
                                           \o Take(rs, 2),
                               action |-> act.cardiac])
              ELSE o0
        o2 == IF StrokePattern(vit)
              THEN Append(o1, [name |-> "Stroke / hypertensive crisis risk",
                               probability |-> IfOrangeOrRed(lvl, 80, 60),
                               because |-> <<Lead("Severely elevated blood pressure")>>
                                           \o Take(rs, 2),
                               action |-> act.stroke])
              ELSE o1
        o3 == IF RespiratoryPattern(vit)
              THEN Append(o2, [name |-> "Respiratory compromise risk",
                               probability |-> IfRed(lvl, 85, 65),
                               because |-> <<Lead("Low oxygen saturation")>> \o Take(rs, 2),
                               action |-> act.respiratory])
              ELSE o2
        o4 == IF SepsisPattern(vit)
              THEN Append(o3, [name |-> "Systemic infection / sepsis risk (screen)",
                               probability |-> IfOrangeOrRed(lvl, 60, 40),
                               because |-> <<Lead("Fever + tachycardia pattern")>>
                                           \o Take(rs, 2),
                               action |-> act.sepsis])
              ELSE o3
        o5 == IF FallbackApplies(o4, lvl)
              THEN Append(o4, [name |-> "Undifferentiated deterioration risk",
                               probability |-> 50,
                               because |-> Take(rs, 3),
                               action |-> act.fallback])
              ELSE o4
    IN  o5

(* infer_outcomes of src/risk_engine.py                                     *)
infer_outcomes(vit, lvl, rs) == InferRules(AppActions, vit, lvl, rs)

(* infer_outcomes of src/backend-python/app/risk_engine.py                  *)
backend_infer_outcomes(vit, lvl, rs) == InferRules(BackendActions, vit, lvl, rs)

EngineInfer(e, vit, lvl, rs) ==
    IF e = "app" THEN infer_outcomes(vit, lvl, rs) ELSE backend_infer_outcomes(vit, lvl, rs)

----------------------------------------------------------------------------
(* RollingWindow                                                            *)

(* deque(maxlen=maxlen).append(item): a full deque drops its leftmost item. *)
DequeAppend(d, maxlen, item) ==
    IF maxlen = 0 THEN <<>>
    ELSE IF Len(d) >= maxlen THEN Append(Tail(d), item)
    ELSE Append(d, item)

(* A t_epoch argument: given = FALSE is None (the argument left out).       *)
NoTimestamp == [given |-> FALSE, t |-> 0]

Timestamp(t) == [given |-> TRUE, t |-> t]

(* "t_epoch or time.time()": None and 0 are both falsy.                     *)
OrClock(t_epoch, now) == IF t_epoch.given /\ t_epoch.t # 0 THEN t_epoch.t ELSE now

(* RollingWindow.push of src/risk_engine.py; now is what time.time() reads. *)
push(d, maxlen, vit, t_epoch, now) ==
    DequeAppend(d, maxlen, [t |-> OrClock(t_epoch, now), vitals |-> vit])

(* RollingWindow.push of the backend copy.                                  *)
backend_push(d, maxlen, t_epoch, vit) ==
    DequeAppend(d, maxlen, [t |-> t_epoch, vitals |-> vit])

(* A mutant of ScanRef: the reference is always the oldest entry.           *)
ScanRef_Oldest(d, i, t_now, seconds) == d[1]

(* A mutant of ScanRef: the scan runs from the newest entry back, so the     *)
(* reference is the youngest entry that is old enough.                      *)
ScanRef_NewestFirst(d, i, t_now, seconds) ==
    LET ok == {j \in 1..Len(d) : t_now - d[j].t >= seconds}
    IN  IF ok = {} THEN d[1] ELSE d[CHOOSE j \in ok : \A k \in ok : k <= j]

(* The for loop of _rate: the first entry from index i on whose age is at   *)
(* least seconds, else the entry the loop started from (data[0]).           *)
RECURSIVE ScanRef(_, _, _, _)
ScanRef(d, i, t_now, seconds) ==
    IF i > Len(d) THEN d[1]
    ELSE IF t_now - d[i].t >= seconds THEN d[i]
    ELSE ScanRef(d, i + 1, t_now, seconds)

(* 1 / 1e-6: the epsilon of dt = max(1e-6, t_now - t_ref).                  *)
EpsInv == 1000000

(* (v_now[key] - v_ref[key]) / max(1e-6, t_now - t_ref) * 60.0              *)
(* Timestamps are whole seconds, so the difference is either at least 1,    *)
(* and max() keeps it, or at most 0, and max() gives 1e-6.                  *)
RateBetween(now, ref, key) ==
    LET dv == now.vitals[key] - ref.vitals[key]
        dt == now.t - ref.t
    IN  IF dt >= 1 THEN Frac(dv * 60, dt) ELSE Frac(dv * 60 * EpsInv, 1)

(* RollingWindow._rate_per_min / RollingWindow._rate                        *)
rate_per_min(d, key, seconds) ==
    IF Len(d) < 2 THEN Frac(0, 1)
    ELSE LET now == d[Len(d)]
         IN  RateBetween(now, ScanRef(d, 1, now.t, seconds), key)

(* RollingWindow.rates_per_min                                              *)
rates_per_min(d) ==
    [heart_rate |-> rate_per_min(d, "heart_rate", 60),
     bp_systolic |-> rate_per_min(d, "bp_systolic", 120),
     oxygen_saturation |-> rate_per_min(d, "oxygen_saturation", 60),
     temperature |-> rate_per_min(d, "temperature", 300)]

----------------------------------------------------------------------------
(* Inputs of the bounded check                                              *)

(* Vitals handed to classify_level: values on, past and between the limits  *)
(* of the tables (3825 prints as 38.2: a tie, rounded to even).             *)
HeartRateInputs == {1000, 1050, 1300, 1400, 1500, 1600}

VitalsInputs ==
    [heart_rate : HeartRateInputs,
     bp_systolic : {1300, 1500, 1700},
     bp_diastolic : {800, 1200},
     oxygen_saturation : {970, 950, 920, 900},
     temperature : {3500, 3680, 3825, 3900}]

(* Vitals handed to infer_outcomes: values on, past and between the limits  *)
(* of the four patterns.                                                    *)
InferVitalsInputs ==
    [heart_rate : {1000, 1200, 1295, 1300, 1600},
     bp_systolic : {1300, 1695, 1700, 1800, 1850},
     bp_diastolic : {800, 1195, 1200},
     oxygen_saturation : {970, 921, 920, 901, 900},
     temperature : {3680, 3849, 3850, 3900}]

(* Rates on and next to the three trend limits (14.95, 15, -2, 10 per min). *)
RatesInputs ==
    [heart_rate : {Frac(0, 1), Frac(299, 2), Frac(150, 1)},
     bp_systolic : {Frac(0, 1), Frac(100, 1)},
     oxygen_saturation : {Frac(0, 1), Frac(-20, 1)},
     temperature : {Frac(0, 1)}]

ProfileInputs == {"athlete", "hypertensive", "critical", "normal", "unknown"}

(* No profile: the caller builds its own Thresholds record.                 *)
NoProfile == "<none>"

(* A Thresholds record no table holds: the normal table with the red and    *)
(* the yellow limits exchanged.                                             *)
SwappedThresholds ==
    [hr_red |-> 1100, spo2_red |-> 950, sys_red |-> 1500, dia_red |-> 950,
     temp_red_hi |-> 3800, temp_red_lo |-> 3600,
     hr_yellow |-> 1500, spo2_yellow |-> 920, sys_yellow |-> 1700, dia_yellow |-> 1100,
     temp_yellow_hi |-> 3900, temp_yellow_lo |-> 3500]

CustomThresholds == {SwappedThresholds}

(* Reasons lists handed to infer_outcomes: the prefixes of one list.        *)
MaxReasons == 4

ReasonAt(i) == Reason("reason", i, 0, 0, 0)

ReasonsInputs == {[i \in 1..n |-> ReasonAt(i)] : n \in 0..MaxReasons}

(* The service is not running: what its variables hold in the evaluations   *)
(* of single functions.                                                     *)
ServerOff ==
    /\ conn = <<>>
    /\ running = 0
    /\ windows = <<>>
    /\ wallclock = 0
    /\ db = [vital_calls |-> 0, vitals |-> 0, event_calls |-> 0, events |-> 0]
    /\ book = [ticks |-> 0]

(* The values a variable holds before it is set.                            *)
NoThresholds == [hr_red |-> 0]

NoVitals == [heart_rate |-> 0]

NoRates == [heart_rate |-> Frac(0, 1)]

NoResult == [level |-> "none"]

NoRate == [key |-> "none"]

----------------------------------------------------------------------------
(* Classification: thresholds, then classify_level                          *)

InitClassify ==
    /\ pc = "start"
    /\ engine \in Engines
    /\ profile \in ProfileInputs \cup {NoProfile}
    /\ th = NoThresholds
    /\ v = NoVitals
    /\ rates = NoRates
    /\ res = NoResult
    /\ level = "none"
    /\ reasons = <<>>
    /\ outcomes = <<>>
    /\ data = <<>>
    /\ pushed = <<>>
    /\ rate = NoRate
    /\ ServerOff

(* th = patient_thresholds(p.profile)                                       *)
Resolve ==
    /\ pc = "start"
    /\ profile # NoProfile
    /\ th' = patient_thresholds(profile)
    /\ pc' = "resolved"
    /\ UNCHANGED <<engine, profile, v, rates, res, level, reasons, outcomes,
                   data, pushed, rate>>
    /\ UNCHANGED serverVars

(* th = Thresholds(...): a record of the caller's own                       *)
Construct ==
    /\ pc = "start"
    /\ profile = NoProfile
    /\ th' \in CustomThresholds
    /\ pc' = "resolved"
    /\ UNCHANGED <<engine, profile, v, rates, res, level, reasons, outcomes,
                   data, pushed, rate>>
    /\ UNCHANGED serverVars

(* level, reasons, score = classify_level(vitals, th, rates)                *)
Classify ==
    /\ pc = "resolved"
    /\ \E vit \in VitalsInputs, rt \in RatesInputs :
           /\ v' = vit
           /\ rates' = rt
           /\ res' = EngineClassify(engine, vit, th, rt)
    /\ pc' = "classified"
    /\ UNCHANGED <<engine, profile, th, level, reasons, outcomes, data, pushed, rate>>
    /\ UNCHANGED serverVars

(* classify_level again on the same thresholds and rates and on vitals that *)
(* differ in heart_rate alone, which is higher.                             *)
ClassifyHigherHeartRate ==
    /\ pc \in {"classified", "raised"}
    /\ \E h \in {x \in HeartRateInputs : x > v.heart_rate} :
           LET vit == [v EXCEPT !.heart_rate = h]
           IN  /\ v' = vit
               /\ res' = EngineClassify(engine, vit, th, rates)
    /\ pc' = "raised"
    /\ UNCHANGED <<engine, profile, th, rates, level, reasons, outcomes,
                   data, pushed, rate>>
    /\ UNCHANGED serverVars

NextClassify == Resolve \/ Construct \/ Classify \/ ClassifyHigherHeartRate

SpecClassify == InitClassify /\ [][NextClassify]_vars

----------------------------------------------------------------------------
(* Outcome inference on any vitals, level and reasons                       *)

InitInfer ==
    /\ pc = "infer"
    /\ engine \in Engines
    /\ v \in InferVitalsInputs
    /\ level \in Levels
    /\ reasons \in ReasonsInputs
    /\ outcomes = <<>>
    /\ profile = NoProfile
    /\ th = NoThresholds
    /\ rates = NoRates
    /\ res = NoResult
    /\ data = <<>>
    /\ pushed = <<>>
    /\ rate = NoRate
    /\ ServerOff

(* outcomes = infer_outcomes(vitals, level, reasons)                        *)
Infer ==
    /\ pc = "infer"
    /\ outcomes' = EngineInfer(engine, v, level, reasons)
    /\ pc' = "inferred"
    /\ UNCHANGED <<engine, profile, th, v, rates, res, level, reasons, data, pushed, rate>>
    /\ UNCHANGED serverVars

NextInfer == Infer

SpecInfer == InitInfer /\ [][NextInfer]_vars

----------------------------------------------------------------------------
(* One RollingWindow: pushes and rate queries in any order                  *)

(* maxlen of the window under check (the code's callers pass 120).          *)
Capacity == 3

(* How many pushes a behaviour makes.                                       *)
MaxPushes == 4

(* Two samples a few tenths apart.                                          *)
WindowVitals ==
    {[heart_rate |-> 800, bp_systolic |-> 1200, bp_diastolic |-> 800,
      oxygen_saturation |-> 980, temperature |-> 3680],
     [heart_rate |-> 830, bp_systolic |-> 1225, bp_diastolic |-> 810,
      oxygen_saturation |-> 975, temperature |-> 3690]}

(* Timestamps a caller passes, in any order.                                *)
TimeInputs == {0, 60, 360}

(* What time.time() may read.                                               *)
ClockReadings == {400}

(* The keys a rate is asked for.                                            *)
VitalKeys == {"heart_rate", "temperature"}

(* The lookbacks rates_per_min uses.                                        *)
LookbackInputs == {60, 120, 300}

InitWindow ==
    /\ pc = "window"
    /\ engine \in Engines
    /\ data = <<>>
    /\ pushed = <<>>
    /\ rate = NoRate
    /\ rates = NoRates
    /\ profile = NoProfile
    /\ th = NoThresholds
    /\ v = NoVitals
    /\ res = NoResult
    /\ level = "none"
    /\ reasons = <<>>
    /\ outcomes = <<>>
    /\ ServerOff

(* window.push(vitals) and window.push(vitals, t_epoch) of the app copy.    *)
(* pushed records the call: its arguments and what the clock read.          *)
Push ==
    /\ pc = "window"
    /\ engine = "app"
    /\ Len(pushed) < MaxPushes
    /\ \E vit \in WindowVitals, now \in ClockReadings,
          t_epoch \in {NoTimestamp} \cup {Timestamp(t) : t \in TimeInputs} :
           /\ data' = push(data, Capacity, vit, t_epoch, now)
           /\ pushed' = Append(pushed, [t_epoch |-> t_epoch, vitals |-> vit, clock |-> now])
    /\ rate' = NoRate
    /\ rates' = NoRates
    /\ UNCHANGED <<engine, pc, profile, th, v, res, level, reasons, outcomes>>
    /\ UNCHANGED serverVars

(* window.push(t_epoch, vitals) of the backend copy.                        *)
BackendPush ==
    /\ pc = "window"
    /\ engine = "backend"
    /\ Len(pushed) < MaxPushes
    /\ \E vit \in WindowVitals, t \in TimeInputs, now \in ClockReadings :
           /\ data' = backend_push(data, Capacity, t, vit)
           /\ pushed' = Append(pushed, [t_epoch |-> Timestamp(t), vitals |-> vit,
                                        clock |-> now])
    /\ rate' = NoRate
    /\ rates' = NoRates
    /\ UNCHANGED <<engine, pc, profile, th, v, res, level, reasons, outcomes>>
    /\ UNCHANGED serverVars

(* window._rate_per_min(key, seconds) / window._rate(key, seconds)          *)
Rate ==
    /\ pc = "window"
    /\ \E key \in VitalKeys, seconds \in LookbackInputs :
           rate' = [key |-> key, seconds |-> seconds,
                    value |-> rate_per_min(data, key, seconds)]
    /\ rates' = NoRates
    /\ UNCHANGED <<engine, pc, profile, th, v, res, level, reasons, outcomes, data, pushed>>
    /\ UNCHANGED serverVars

(* window.rates_per_min()                                                   *)
RatesPerMin ==
    /\ pc = "window"
    /\ rates' = rates_per_min(data)
    /\ rate' = NoRate
    /\ UNCHANGED <<engine, pc, profile, th, v, res, level, reasons, outcomes, data, pushed>>
    /\ UNCHANGED serverVars

NextWindow == Push \/ BackendPush \/ Rate \/ RatesPerMin

SpecWindow == InitWindow /\ [][NextWindow]_vars

----------------------------------------------------------------------------
(* Properties of classify_level (under SpecClassify)                        *)

(* classify_level has returned: res holds its result for v, th and rates.   *)
Classified == pc \in {"classified", "raised"}

(* The checks of the specification's section 4.3 that an input triggers,    *)
(* stated from the specification's text.                                    *)
RedCrossed(vit, t) ==
    {k \in {"hr_red", "spo2_red", "bp_red", "temp_red"} :
        \/ k = "hr_red" /\ vit.heart_rate >= t.hr_red
        \/ k = "spo2_red" /\ vit.oxygen_saturation <= t.spo2_red
        \/ k = "bp_red" /\ (vit.bp_systolic >= t.sys_red \/ vit.bp_diastolic >= t.dia_red)
        \/ k = "temp_red" /\ (vit.temperature >= t.temp_red_hi
                              \/ vit.temperature <= t.temp_red_lo)}

BoostsFired(rt) ==
    {k \in {"hr_rate", "spo2_rate", "sys_rate"} :
        \/ k = "hr_rate" /\ rt.heart_rate.num >= 150 * rt.heart_rate.den
        \/ k = "spo2_rate" /\ rt.oxygen_saturation.num <= -20 * rt.oxygen_saturation.den
        \/ k = "sys_rate" /\ rt.bp_systolic.num >= 100 * rt.bp_systolic.den}

YellowCrossed(vit, t) ==
    {k \in {"hr_yellow", "spo2_yellow", "bp_yellow", "temp_yellow"} :
        \/ k = "hr_yellow" /\ vit.heart_rate >= t.hr_yellow
        \/ k = "spo2_yellow" /\ vit.oxygen_saturation <= t.spo2_yellow
        \/ k = "bp_yellow" /\ (vit.bp_systolic >= t.sys_yellow
                               \/ vit.bp_diastolic >= t.dia_yellow)
        \/ k = "temp_yellow" /\ (vit.temperature >= t.temp_yellow_hi
                                 \/ vit.temperature <= t.temp_yellow_lo)}

(* The increment the specification gives each check.                        *)
Increment(k) ==
    CASE k = "hr_red" -> 25 [] k = "spo2_red" -> 30 [] k = "bp_red" -> 25
      [] k = "temp_red" -> 15
      [] k = "hr_rate" -> 10 [] k = "spo2_rate" -> 15 [] k = "sys_rate" -> 10
      [] k = "hr_yellow" -> 8 [] k = "spo2_yellow" -> 10 [] k = "bp_yellow" -> 8
      [] k = "temp_yellow" -> 6

RECURSIVE SumIncrements(_)
SumIncrements(ks) ==
    IF ks = {} THEN 0
    ELSE LET k == CHOOSE x \in ks : TRUE
         IN  Increment(k) + SumIncrements(ks \ {k})

Triggered(vit, t, rt) == RedCrossed(vit, t) \cup BoostsFired(rt) \cup YellowCrossed(vit, t)

(* C1: classify returns the level of the first matching row of the priority *)
(* table over red_hits (the red checks crossed), warn_hits (the yellow      *)
(* checks crossed) and the clamped score: red iff red_hits >= 1 and         *)
(* score >= 55; else orange if red_hits >= 1 or score >= 45 or              *)
(* warn_hits >= 2; else yellow if warn_hits >= 1 or score >= 20; else green.*)
C1_LevelIsFirstMatchingRow ==
    Classified =>
        LET rh == Cardinality(RedCrossed(v, th))
            wh == Cardinality(YellowCrossed(v, th))
            sc == res.score
            isRed == rh >= 1 /\ sc >= 55
            isOrange == rh >= 1 \/ sc >= 45 \/ wh >= 2
            isYellow == wh >= 1 \/ sc >= 20
        IN  /\ res.red_hits = rh
            /\ res.warn_hits = wh
            /\ isRed => res.level = "red"
            /\ (~isRed /\ isOrange) => res.level = "orange"
            /\ (~isRed /\ ~isOrange /\ isYellow) => res.level = "yellow"
            /\ (~isRed /\ ~isOrange /\ ~isYellow) => res.level = "green"
            /\ res.level = "red" <=> (res.red_hits >= 1 /\ res.score >= 55)

(* C1's case: a red limit is crossed but the score stays under 55, so the   *)
(* level is orange, not red.                                                *)
C1_Witness ==
    /\ Classified
    /\ res.red_hits >= 1
    /\ res.score < 55
    /\ res.level = "orange"

(* C2: the score is the sum of the increments of all triggered checks,      *)
(* clamped to [0, 100].                                                     *)
C2_ScoreIsClampedSum ==
    Classified =>
        LET sum == SumIncrements(Triggered(v, th, rates))
        IN  /\ res.score = (IF sum > 100 THEN 100 ELSE IF sum < 0 THEN 0 ELSE sum)
            /\ 0 <= res.score
            /\ res.score <= 100

(* C2's case: the increments add up to more than 100 and the score is 100.  *)
C2_Witness ==
    /\ Classified
    /\ SumIncrements(Triggered(v, th, rates)) > 100
    /\ res.score = 100

(* C7: when no red and no yellow limit is crossed and no trend boost fires, *)
(* classify returns level green, score 0 and an empty reasons list.         *)
C7_NothingTriggeredIsGreen ==
    (Classified /\ Triggered(v, th, rates) = {}) =>
        /\ res.level = "green"
        /\ res.score = 0
        /\ res.reasons = <<>>

(* C7's case: the athlete profile with HR 100, BP 130/80, SpO2 97 and all   *)
(* rates 0 is classified green with score 0.                                *)
C7_Witness ==
    /\ Classified
    /\ profile = "athlete"
    /\ v.heart_rate = 1000 /\ v.bp_systolic = 1300 /\ v.bp_diastolic = 800
    /\ v.oxygen_saturation = 970 /\ v.temperature = 3680
    /\ rates.heart_rate = Frac(0, 1) /\ rates.bp_systolic = Frac(0, 1)
    /\ rates.oxygen_saturation = Frac(0, 1)
    /\ res.level = "green" /\ res.score = 0 /\ res.reasons = <<>>

(* C8: for two vitals that differ in heart_rate alone, with the same        *)
(* thresholds and rates, the score for the higher heart_rate is at least    *)
(* the score for the lower one.                                             *)
C8_ScoreMonotoneInHeartRate ==
    [][(/\ Classified /\ Classified'
        /\ th' = th /\ rates' = rates /\ engine' = engine
        /\ v'.bp_systolic = v.bp_systolic /\ v'.bp_diastolic = v.bp_diastolic
        /\ v'.oxygen_saturation = v.oxygen_saturation /\ v'.temperature = v.temperature
        /\ v'.heart_rate >= v.heart_rate)
       => res'.score >= res.score]_vars

(* C8's case: classify ran again on a higher heart rate, one that crosses   *)
(* the red limit.                                                           *)
C8_Witness ==
    /\ pc = "raised"
    /\ v.heart_rate >= th.hr_red
    /\ res.score >= 25

(* C9: whatever the profile string, recognised or not, the Thresholds the   *)
(* resolver returns keep every yellow limit strictly inside its red limit.  *)
C9_YellowInsideRed ==
    (pc # "start" /\ profile # NoProfile) =>
        /\ th.hr_yellow < th.hr_red
        /\ th.spo2_yellow > th.spo2_red
        /\ th.sys_yellow < th.sys_red
        /\ th.dia_yellow < th.dia_red
        /\ th.temp_yellow_hi < th.temp_red_hi
        /\ th.temp_yellow_lo > th.temp_red_lo

(* C9's case: an unrecognised profile string is resolved, without error, to *)
(* the normal table.                                                        *)
C9_Witness ==
    /\ pc = "resolved"
    /\ profile = "unknown"
    /\ th.hr_red = 1500 /\ th.hr_yellow = 1100
    /\ th.sys_red = 1700 /\ th.sys_yellow = 1500

(* The eleven checks in evaluation order.                                   *)
ChecksInOrder ==
    <<"hr_red", "spo2_red", "bp_red", "temp_red", "hr_rate", "spo2_rate", "sys_rate",
      "hr_yellow", "spo2_yellow", "bp_yellow", "temp_yellow">>

(* The backend copy appends no heart-rate warning when the heart rate has   *)
(* crossed its red limit too.                                               *)
HrWarningDropped ==
    /\ engine = "backend"
    /\ v.heart_rate >= th.hr_red
    /\ v.heart_rate >= th.hr_yellow

(* C10 as amended: the reasons are those of the triggered checks, one each, *)
(* in evaluation order, except that the backend copy appends no reason for  *)
(* the heart-rate yellow check when the heart-rate red check has fired: the *)
(* list is then one shorter than red_hits + boosts fired + warn_hits.       *)
C10_ReasonsOfTriggeredChecks ==
    Classified =>
        LET Said(k) == k \in Triggered(v, th, rates) /\ ~(HrWarningDropped /\ k = "hr_yellow")
            expected == SelectSeq(ChecksInOrder, Said)
        IN  /\ Len(res.reasons) = Len(expected)
            /\ \A i \in 1..Len(expected) : res.reasons[i].kind = expected[i]
            /\ Len(res.reasons) = res.red_hits + Cardinality(BoostsFired(rates))
                                  + res.warn_hits - (IF HrWarningDropped THEN 1 ELSE 0)

(* C10's case: in the backend copy the heart rate crosses both its limits   *)
(* and the list is one shorter than the number of triggered checks.         *)
C10_Witness ==
    /\ Classified
    /\ HrWarningDropped
    /\ Len(res.reasons) = Cardinality(Triggered(v, th, rates)) - 1

(* C10 as claimed: every triggered check appends exactly one reason, so the *)
(* length of reasons is red_hits + boosts fired + warn_hits.                *)
C10_Original ==
    Classified =>
        Len(res.reasons) = res.red_hits + Cardinality(BoostsFired(rates)) + res.warn_hits

----------------------------------------------------------------------------
(* Properties of infer_outcomes (under SpecInfer)                           *)

(* The positions in outcomes of the outcomes with a given name.             *)
Named(n) == {i \in 1..Len(outcomes) : outcomes[i].name = n}

(* The outcome named n is in outcomes, once, with probability p.            *)
HasOnce(n, p) ==
    /\ Cardinality(Named(n)) = 1
    /\ \A i \in Named(n) : outcomes[i].probability = p

(* The four pattern rules as the specification's section 4.4 states them.   *)
CardiacRule == v.heart_rate >= 1300 /\ (v.bp_systolic >= 1700 \/ v.oxygen_saturation <= 920)

StrokeRule == v.bp_systolic >= 1800 \/ v.bp_diastolic >= 1200

RespiratoryRule == v.oxygen_saturation <= 900

SepsisRule == v.temperature >= 3850 /\ v.heart_rate >= 1200

(* C5: the four pattern rules are evaluated independently: each outcome is  *)
(* in the result iff its own rule holds, whatever the other rules do, with  *)
(* probability 0.75/0.55 (cardiac) and 0.85/0.65 (respiratory) by           *)
(* level = red, 0.80/0.60 (stroke) and 0.60/0.40 (sepsis) by level in       *)
(* {orange, red}.                                                           *)
C5_RulesIndependent ==
    pc = "inferred" =>
        /\ IF CardiacRule
           THEN HasOnce("Acute cardiac event risk", IF level = "red" THEN 75 ELSE 55)
           ELSE Named("Acute cardiac event risk") = {}
        /\ IF StrokeRule
           THEN HasOnce("Stroke / hypertensive crisis risk",
                        IF level \in {"orange", "red"} THEN 80 ELSE 60)
           ELSE Named("Stroke / hypertensive crisis risk") = {}
        /\ IF RespiratoryRule
           THEN HasOnce("Respiratory compromise risk", IF level = "red" THEN 85 ELSE 65)
           ELSE Named("Respiratory compromise risk") = {}
        /\ IF SepsisRule
           THEN HasOnce("Systemic infection / sepsis risk (screen)",
                        IF level \in {"orange", "red"} THEN 60 ELSE 40)
           ELSE Named("Systemic infection / sepsis risk (screen)") = {}

(* C5's case: all four rules hold at once on a yellow level, and all four   *)
(* outcomes are returned.                                                   *)
C5_Witness ==
    /\ pc = "inferred"
    /\ level = "yellow"
    /\ CardiacRule /\ StrokeRule /\ RespiratoryRule /\ SepsisRule
    /\ Len(outcomes) = 4

(* C6: the "Undifferentiated deterioration risk" outcome is returned iff no *)
(* pattern rule fired and the level is orange or red; it is then the only   *)
(* outcome, with probability 0.50 and the first 3 reasons as because; and   *)
(* every outcome's because list has at most 3 strings.                      *)
C6_FallbackOnlyAlone ==
    pc = "inferred" =>
        LET fb == Named("Undifferentiated deterioration risk")
            none == ~CardiacRule /\ ~StrokeRule /\ ~RespiratoryRule /\ ~SepsisRule
        IN  /\ (fb # {}) <=> (none /\ level \in {"orange", "red"})
            /\ (fb # {}) => /\ Len(outcomes) = 1
                            /\ outcomes[1].probability = 50
                            /\ outcomes[1].because
                                   = [i \in 1..(IF Len(reasons) < 3 THEN Len(reasons) ELSE 3)
                                        |-> reasons[i]]
            /\ \A i \in 1..Len(outcomes) : Len(outcomes[i].because) <= 3

(* C6's case: no rule fires on an orange level with four reasons: the       *)
(* fallback is the only outcome and carries the first three.                *)
C6_Witness ==
    /\ pc = "inferred"
    /\ level = "orange"
    /\ Len(reasons) = 4
    /\ Len(outcomes) = 1
    /\ outcomes[1].name = "Undifferentiated deterioration risk"
    /\ Len(outcomes[1].because) = 3

----------------------------------------------------------------------------
(* Properties of RollingWindow (under SpecWindow)                           *)

(* The age of entry i of the buffer, measured from its newest entry.        *)
Age(i) == data[Len(data)].t - data[i].t

(* The entries whose age is at least the lookback of the last rate query.   *)
OldEnough == {i \in 1..Len(data) : Age(i) >= rate.seconds}

(* C3: rate_per_minute(vital, lookback) is 0.0 on a buffer of fewer than 2  *)
(* samples; otherwise it is (v_now - v_ref) / max(1e-6, t_now - t_ref) * 60 *)
(* with (t_now, v_now) the newest sample and (t_ref, v_ref) the first       *)
(* sample, oldest to newest, whose age is at least lookback, or the oldest  *)
(* sample when none has that age.                                           *)
C3_RateFormula ==
    rate.key # "none" =>
        IF Len(data) < 2
        THEN rate.value = Frac(0, 1)
        ELSE LET ref == IF OldEnough = {} THEN 1
                        ELSE CHOOSE i \in OldEnough : \A j \in OldEnough : i <= j
                 dv == data[Len(data)].vitals[rate.key] - data[ref].vitals[rate.key]
                 micros == IF Age(ref) * 1000000 > 1 THEN Age(ref) * 1000000 ELSE 1
                 g == GCD(1000000, micros)
             IN  \* dv * 60 / (micros / 1000000), in lowest terms
                 rate.value = Frac(dv * 60 * (1000000 \div g), micros \div g)

(* C3's case: the oldest sample is younger than the lookback and the second *)
(* one is old enough: the rate is taken from the second, and is not 0.      *)
C3_Witness ==
    /\ rate.key # "none"
    /\ Len(data) = 3
    /\ Age(1) < rate.seconds
    /\ Age(2) >= rate.seconds
    /\ rate.value.num # 0

(* C4 as claimed: after n pushes the buffer holds the last min(n, N) pushed *)
(* (timestamp, sample) pairs in arrival order, each with the timestamp the  *)
(* caller supplied.                                                         *)
C4_BufferHoldsLastPushes ==
    pc = "window" =>
        LET n == Len(pushed)
            k == IF n < Capacity THEN n ELSE Capacity
        IN  /\ Len(data) = k
            /\ \A i \in 1..k :
                   /\ data[i].vitals = pushed[n - k + i].vitals
                   /\ pushed[n - k + i].t_epoch.given
                          => data[i].t = pushed[n - k + i].t_epoch.t

(* The buffer's timestamps never decrease from one entry to the next.       *)
NonDecreasing == \A i \in 1..(Len(data) - 1) : data[i].t <= data[i + 1].t

(* The rate of key from the oldest entry of the buffer to its newest.       *)
WholeBufferRate(key) ==
    LET dv == data[Len(data)].vitals[key] - data[1].vitals[key]
        micros == IF Age(1) * 1000000 > 1 THEN Age(1) * 1000000 ELSE 1
        g == GCD(1000000, micros)
    IN  Frac(dv * 60 * (1000000 \div g), micros \div g)

(* C16: on a buffer whose timestamps never decrease the reference sample is *)
(* the oldest one whatever the lookback: every lookback gives the same      *)
(* rate, the rate from the oldest sample to the newest, and so do the four  *)
(* rates of rates_per_min.                                                  *)
C16_ReferenceIsOldest ==
    (pc = "window" /\ NonDecreasing /\ Len(data) >= 2) =>
        /\ \A key \in VitalKeys : \A l1 \in LookbackInputs :
               /\ rate_per_min(data, key, l1) = WholeBufferRate(key)
               /\ \A l2 \in LookbackInputs :
                      rate_per_min(data, key, l1) = rate_per_min(data, key, l2)
        /\ rate.key # "none" => rate.value = WholeBufferRate(rate.key)
        /\ rates # NoRates =>
               \A key \in DOMAIN rates : rates[key] = WholeBufferRate(key)

(* C16's case: three samples at increasing times, the second one old enough *)
(* for the lookback asked for, and a rate that is not 0.                    *)
C16_Witness ==
    /\ rate.key # "none"
    /\ Len(data) = 3
    /\ data[1].t < data[2].t
    /\ data[2].t < data[3].t
    /\ Age(2) >= rate.seconds
    /\ rate.value.num # 0
    /\ rate.value # RateBetween(data[3], data[2], rate.key)

----------------------------------------------------------------------------
(* Trend boosts alone (under SpecClassify)                                  *)

(* C18: when no red and no yellow limit is crossed, whatever the rates,     *)
(* classify returns red_hits = 0, warn_hits = 0, a score of at most 35 (the *)
(* sum of the boosts that fired) and the level yellow when that sum is at   *)
(* least 20 and green otherwise, never orange or red.                       *)
C18_BoostsAloneAtMostYellow ==
    (Classified /\ RedCrossed(v, th) = {} /\ YellowCrossed(v, th) = {}) =>
        /\ res.red_hits = 0
        /\ res.warn_hits = 0
        /\ res.score <= 35
        /\ res.score = SumIncrements(BoostsFired(rates))
        /\ res.level = (IF SumIncrements(BoostsFired(rates)) >= 20 THEN "yellow" ELSE "green")
        /\ res.level \notin {"orange", "red"}

(* C18's case: no limit crossed and all three boosts fired: score 35 and    *)
(* level yellow.                                                            *)
C18_Witness ==
    /\ Classified
    /\ RedCrossed(v, th) = {}
    /\ YellowCrossed(v, th) = {}
    /\ BoostsFired(rates) = {"hr_rate", "spo2_rate", "sys_rate"}
    /\ res.score = 35
    /\ res.level = "yellow"
    /\ Len(res.reasons) = 3

----------------------------------------------------------------------------
(* One evaluation of the pipeline: thresholds, classify_level, then         *)
(* infer_outcomes on the level and the reasons classify_level returned      *)

(* Vitals on, past and between the limits of the four patterns, which lie   *)
(* on or past the limits of the four tables.                                *)
EvaluateVitalsInputs ==
    [heart_rate : {1000, 1195, 1200, 1295, 1300, 1600},
     bp_systolic : {1300, 1695, 1700, 1795, 1800},
     bp_diastolic : {800, 1195, 1200},
     oxygen_saturation : {970, 921, 920, 901, 900},
     temperature : {3680, 3849, 3850}]

(* No trend, and all three boosts at once.                                  *)
EvaluateRatesInputs ==
    {[heart_rate |-> Frac(0, 1), bp_systolic |-> Frac(0, 1),
      oxygen_saturation |-> Frac(0, 1), temperature |-> Frac(0, 1)],
     [heart_rate |-> Frac(150, 1), bp_systolic |-> Frac(100, 1),
      oxygen_saturation |-> Frac(-20, 1), temperature |-> Frac(0, 1)]}

InitEvaluate ==
    /\ pc = "evaluate"
    /\ engine \in Engines
    /\ profile = NoProfile
    /\ th = NoThresholds
    /\ v = NoVitals
    /\ rates = NoRates
    /\ res = NoResult
    /\ level = "none"
    /\ reasons = <<>>
    /\ outcomes = <<>>
    /\ data = <<>>
    /\ pushed = <<>>
    /\ rate = NoRate
    /\ ServerOff

(* th = patient_thresholds(profile)                                         *)
(* level, reasons, score = classify_level(vitals, th, rates)                *)
(* outcomes = infer_outcomes(vitals, level, reasons)                        *)
Evaluate ==
    /\ pc = "evaluate"
    /\ \E p \in ProfileInputs, vit \in EvaluateVitalsInputs, rt \in EvaluateRatesInputs :
           LET t == patient_thresholds(p)
               r == EngineClassify(engine, vit, t, rt)
           IN  /\ profile' = p
               /\ th' = t
               /\ v' = vit
               /\ rates' = rt
               /\ res' = r
               /\ level' = r.level
               /\ reasons' = r.reasons
               /\ outcomes' = EngineInfer(engine, vit, r.level, r.reasons)
    /\ pc' = "evaluated"
    /\ UNCHANGED <<engine, data, pushed, rate>>
    /\ UNCHANGED serverVars

NextEvaluate == Evaluate

SpecEvaluate == InitEvaluate /\ [][NextEvaluate]_vars

----------------------------------------------------------------------------
(* Outcomes of an evaluation (under SpecEvaluate)                           *)

(* A pattern rule of the specification's section 4.4 holds of the vitals.   *)
AnyPatternHolds ==
    \/ v.heart_rate >= 1300 /\ (v.bp_systolic >= 1700 \/ v.oxygen_saturation <= 920)
    \/ v.bp_systolic >= 1800 \/ v.bp_diastolic >= 1200
    \/ v.oxygen_saturation <= 900
    \/ v.temperature >= 3850 /\ v.heart_rate >= 1200

(* C17: in an evaluation (thresholds of a profile table, level and reasons  *)
(* from classify on the same vitals, any rates) the outcomes list is        *)
(* non-empty iff the level is orange or red: a pattern rule holds only at   *)
(* orange or red, so the stroke outcome always has probability 0.80 and the *)
(* sepsis outcome 0.60, and a green or yellow tick has no outcome.          *)
C17_OutcomesIffOrangeOrRed ==
    pc = "evaluated" =>
        /\ (outcomes # <<>>) <=> (level \in {"orange", "red"})
        /\ AnyPatternHolds => level \in {"orange", "red"}
        /\ \A i \in 1..Len(outcomes) :
               /\ outcomes[i].name = "Stroke / hypertensive crisis risk"
                      => outcomes[i].probability = 80
               /\ outcomes[i].name = "Systemic infection / sepsis risk (screen)"
                      => outcomes[i].probability = 60

(* C17's case: the normal profile with HR 120 and 38.5 degrees and nothing  *)
(* else raised: two warnings make the level orange, and the sepsis outcome  *)
(* is the only one, at 0.60.                                                *)
C17_Witness ==
    /\ pc = "evaluated"
    /\ profile = "normal"
    /\ v.heart_rate = 1200 /\ v.temperature = 3850
    /\ res.red_hits = 0 /\ res.warn_hits = 2
    /\ level = "orange"
    /\ Len(outcomes) = 1
    /\ outcomes[1].name = "Systemic infection / sepsis risk (screen)"
    /\ outcomes[1].probability = 60

----------------------------------------------------------------------------
(* The service: the /ws endpoint of src/backend-python/app/main.py (any     *)
(* number of connections, coroutines of one event loop) and the script of   *)
(* src/app.py (one Streamlit session, one rerun per tick)                   *)

(* seed_patients / PATIENTS: patient id -> profile (two of the four rows).  *)
Patients == [P001 |-> "normal", P002 |-> "hypertensive"]

(* The patient_id a connection asks for; P404 is in no row.                 *)
PatientIdInputs == DOMAIN Patients \cup {"P404"}

(* The connections open at once.                                            *)
Conns == {1, 2}

(* A Streamlit session has its own session_state: one session is modelled. *)
ConnsOf(e) == IF e = "app" THEN {1} ELSE Conns

(* maxlen of the windows under check (the code passes 120).                 *)
WindowMaxlen == 2

(* How many ticks a behaviour makes, over all connections.                  *)
MaxTicks == 3

(* What generate_vitals may return: for the normal and the hypertensive     *)
(* table the first sample crosses no limit, the second the heart-rate       *)
(* yellow limit, the third the heart-rate and the SpO2 yellow limit.        *)
ServerVitals ==
    {[heart_rate |-> 1090, bp_systolic |-> 1200, bp_diastolic |-> 800,
      oxygen_saturation |-> 960, temperature |-> 3680],
     [heart_rate |-> 1100, bp_systolic |-> 1200, bp_diastolic |-> 800,
      oxygen_saturation |-> 960, temperature |-> 3680],
     [heart_rate |-> 1100, bp_systolic |-> 1200, bp_diastolic |-> 800,
      oxygen_saturation |-> 950, temperature |-> 3680]}

(* How far time.time() has moved on since the last tick of any connection,  *)
(* in seconds.                                                              *)
ClockSteps == {1}

(* What a commit may do.                                                    *)
StorageOutcomes == {"ok", "raises"}

(* What requests.post(..., timeout=1.5) may do.                             *)
DeliveryOutcomes == {"ok", "raises", "timeout"}

(* What ws.send_text may do.                                                *)
SendOutcomes == {"ok", "disconnect"}

(* A mutant of Awaits: the coroutine also yields between push and rates.    *)
Awaits_AfterPush == {"accept", "reject", "send", "sleep", "rerun", "pushed"}

(* The positions at which a coroutine is suspended in an await (ws.accept,  *)
(* ws.send_text, asyncio.sleep), and the app between two script reruns.     *)
Awaits == {"accept", "reject", "send", "sleep", "rerun"}

(* The positions a connection never leaves.                                 *)
Ended == {"closed", "failed"}

(* The event loop runs one coroutine from one await to the next.            *)
CanRun(c) == running = c \/ (running = 0 /\ conn[c].pc \in Awaits)

(* Who holds the event loop once connection c stands at position p.         *)
Yield(c, p) == IF p \in Awaits \cup Ended THEN 0 ELSE c

(* A mutant of EnsureWindow: every connection starts a new window.          *)
EnsureWindow_Fresh(ws, pid) ==
    [q \in DOMAIN ws \cup {pid} |-> IF q = pid THEN <<>> ELSE ws[q]]

(* if patient_id not in windows: windows[patient_id] = RollingWindow(...)   *)
EnsureWindow(ws, pid) ==
    IF pid \in DOMAIN ws THEN ws
    ELSE [q \in DOMAIN ws \cup {pid} |-> IF q = pid THEN <<>> ELSE ws[q]]

(* A mutant of ShouldLog: only alerts are logged.                           *)
ShouldLog_AlertsOnly(lvl) == lvl \in {"orange", "red"}

(* if level in ("yellow", "orange", "red")                                  *)
ShouldLog(lvl) == lvl \in {"yellow", "orange", "red"}

(* save_vital / db.add(vr); db.commit(): the row is handed over, and stored *)
(* unless the commit raises.                                                *)
save_vital(d, outcome) ==
    [d EXCEPT !.vital_calls = @ + 1, !.vitals = IF outcome = "ok" THEN @ + 1 ELSE @]

(* save_event / log_event                                                   *)
save_event(d, outcome) ==
    [d EXCEPT !.event_calls = @ + 1, !.events = IF outcome = "ok" THEN @ + 1 ELSE @]

(* A mutant of maybe_notify: no try/except around the post.                 *)
maybe_notify_Uncaught(lvl, delivery) ==
    IF lvl \notin {"orange", "red"} THEN [posted |-> FALSE, raised |-> FALSE]
    ELSE [posted |-> TRUE, raised |-> delivery # "ok"]

(* maybe_notify: returns at once below orange; else posts, and swallows     *)
(* whatever the post raises.                                                *)
maybe_notify(lvl, delivery) ==
    IF lvl \notin {"orange", "red"} THEN [posted |-> FALSE, raised |-> FALSE]
    ELSE [posted |-> TRUE, raised |-> FALSE]

(* A tick before its first step.                                            *)
BlankTick ==
    [seq |-> 0, sample |-> NoVitals, seen |-> 0, newest |-> NoVitals,
     level |-> "none", risk_score |-> 0, outcomes |-> <<>>,
     vital |-> "none", event |-> "none", notify |-> "none", sent |-> FALSE]

NoPushes == [q \in DOMAIN Patients |-> <<>>]

InitServer ==
    /\ engine \in Engines
    /\ conn = [c \in ConnsOf(engine) |->
                 [pc |-> IF engine = "app" THEN "rerun" ELSE "accept",
                  patient_id |-> "none", persist_db |-> TRUE, tick |-> BlankTick]]
    /\ running = 0
    /\ windows = <<>>
    /\ wallclock = 1000
    /\ db = [vital_calls |-> 0, vitals |-> 0, event_calls |-> 0, events |-> 0]
    /\ book = [ticks |-> 0, nongreen |-> 0, enabled |-> 0, due |-> 0, pushes |-> NoPushes]
    /\ pc = "server"
    /\ profile = NoProfile
    /\ th = NoThresholds
    /\ v = NoVitals
    /\ rates = NoRates
    /\ res = NoResult
    /\ level = "none"
    /\ reasons = <<>>
    /\ outcomes = <<>>
    /\ data = <<>>
    /\ pushed = <<>>
    /\ rate = NoRate

(* Connection c moves to position p, with tick record t.                    *)
Goto(c, p, t) ==
    /\ conn' = [conn EXCEPT ![c].pc = p, ![c].tick = t]
    /\ running' = Yield(c, p)

(* await ws.accept() returns for a connection that asked for patient_id.    *)
Accept ==
    /\ pc = "server"
    /\ engine = "backend"
    /\ \E c \in DOMAIN conn :
           /\ CanRun(c)
           /\ conn[c].pc = "accept"
           /\ \E pid \in PatientIdInputs :
                  /\ conn' = [conn EXCEPT ![c].pc = "lookup", ![c].patient_id = pid]
                  /\ running' = Yield(c, "lookup")
    /\ UNCHANGED <<engine, windows, wallclock, db, book>>
    /\ UNCHANGED unitVars

(* p = db.get(Patient, patient_id): an unknown patient gets the error       *)
(* message; a known one gets its window, unless it has one, and the loop    *)
(* starts.                                                                  *)
Lookup ==
    /\ pc = "server"
    /\ \E c \in DOMAIN conn :
           /\ CanRun(c)
           /\ conn[c].pc = "lookup"
           /\ IF conn[c].patient_id \notin DOMAIN Patients
              THEN /\ Goto(c, "reject", conn[c].tick)
                   /\ UNCHANGED <<windows, book>>
              ELSE /\ book.ticks < MaxTicks
                   /\ windows' = EnsureWindow(windows, conn[c].patient_id)
                   /\ book' = [book EXCEPT !.ticks = @ + 1]
                   /\ Goto(c, "tick", conn[c].tick)
    /\ UNCHANGED <<engine, wallclock, db>>
    /\ UNCHANGED unitVars

(* await ws.send_text(error); await ws.close(); return                      *)
RejectUnknown ==
    /\ pc = "server"
    /\ \E c \in DOMAIN conn :
           /\ CanRun(c)
           /\ conn[c].pc = "reject"
           /\ Goto(c, "closed", conn[c].tick)
    /\ UNCHANGED <<engine, windows, wallclock, db, book>>
    /\ UNCHANGED unitVars

(* A rerun of the app's script: the sidebar gives the patient and the       *)
(* "Persist to SQLite" toggle, and the patient gets its window unless it    *)
(* has one.                                                                 *)
Rerun ==
    /\ pc = "server"
    /\ engine = "app"
    /\ book.ticks < MaxTicks
    /\ \E c \in DOMAIN conn :
           /\ CanRun(c)
           /\ conn[c].pc = "rerun"
           /\ \E pid \in DOMAIN Patients, toggle \in BOOLEAN :
                  /\ conn' = [conn EXCEPT ![c].pc = "tick", ![c].patient_id = pid,
                                          ![c].persist_db = toggle]
                  /\ running' = Yield(c, "tick")
                  /\ windows' = EnsureWindow(windows, pid)
    /\ book' = [book EXCEPT !.ticks = @ + 1]
    /\ UNCHANGED <<engine, wallclock, db>>
    /\ UNCHANGED unitVars

(* vitals = generate_vitals(...); t = time.time(); window.push(t, vitals)   *)
(* (the app: window.push(vitals), which reads the clock itself)             *)
TickPush ==
    /\ pc = "server"
    /\ \E c \in DOMAIN conn :
           /\ CanRun(c)
           /\ conn[c].pc = "tick"
           /\ \E vit \in ServerVitals, d \in ClockSteps :
                  LET pid == conn[c].patient_id
                      t == wallclock + d
                      w == IF engine = "app"
                           THEN push(windows[pid], WindowMaxlen, vit, NoTimestamp, t)
                           ELSE backend_push(windows[pid], WindowMaxlen, t, vit)
                      sample == [t |-> t, vitals |-> vit]
                  IN  /\ wallclock' = t
                      /\ windows' = [windows EXCEPT ![pid] = w]
                      /\ book' = [book EXCEPT !.pushes[pid] = Append(@, sample)]
                      /\ Goto(c, "pushed",
                              [BlankTick EXCEPT !.sample = sample,
                                                !.seq = Len(book.pushes[pid]) + 1])
    /\ UNCHANGED <<engine, db>>
    /\ UNCHANGED unitVars

(* rates = window.rates_per_min(); th = patient_thresholds(profile);        *)
(* level, reasons, score = classify_level(vitals, th, rates);               *)
(* outcomes = infer_outcomes(vitals, level, reasons)                        *)
TickEvaluate ==
    /\ pc = "server"
    /\ \E c \in DOMAIN conn :
           /\ CanRun(c)
           /\ conn[c].pc = "pushed"
           /\ LET pid == conn[c].patient_id
                  w == windows[pid]
                  vit == conn[c].tick.sample.vitals
                  r == EngineClassify(engine, vit, patient_thresholds(Patients[pid]),
                                      rates_per_min(w))
              IN  /\ Goto(c, "evaluated",
                          [conn[c].tick EXCEPT
                              !.newest = w[Len(w)],
                              !.seen = Len(book.pushes[pid]),
                              !.level = r.level,
                              !.risk_score = r.score,
                              !.outcomes = EngineInfer(engine, vit, r.level, r.reasons)])
                  /\ book' = [book EXCEPT
                                 !.nongreen = IF r.level # "green" THEN @ + 1 ELSE @,
                                 !.enabled = IF conn[c].persist_db THEN @ + 1 ELSE @]
    /\ UNCHANGED <<engine, windows, wallclock, db>>
    /\ UNCHANGED unitVars

(* db.add(vr); db.commit() / if persist_db: save_vital(...)                 *)
(* A commit that raises ends the connection (the exception leaves           *)
(* ws_endpoint through finally: db.close()) or the script run.              *)
PersistVitals ==
    /\ pc = "server"
    /\ \E c \in DOMAIN conn :
           /\ CanRun(c)
           /\ conn[c].pc = "evaluated"
           /\ IF ~conn[c].persist_db
              THEN /\ Goto(c, "send", [conn[c].tick EXCEPT !.vital = "off"])
                   /\ UNCHANGED <<db, book>>
              ELSE \E outcome \in StorageOutcomes :
                     /\ db' = save_vital(db, outcome)
                     /\ book' = [book EXCEPT
                                    !.due = IF outcome = "ok" /\ conn[c].tick.level # "green"
                                            THEN @ + 1 ELSE @]
                     /\ IF outcome = "ok"
                        THEN Goto(c, "vital_saved", [conn[c].tick EXCEPT !.vital = "saved"])
                        ELSE Goto(c, IF engine = "app" THEN "rerun" ELSE "failed",
                                  [conn[c].tick EXCEPT !.vital = "failed"])
    /\ UNCHANGED <<engine, windows, wallclock>>
    /\ UNCHANGED unitVars

(* if level in ("yellow", "orange", "red"): log_event(...) / save_event(...) *)
LogEvent ==
    /\ pc = "server"
    /\ \E c \in DOMAIN conn :
           /\ CanRun(c)
           /\ conn[c].pc = "vital_saved"
           /\ IF ~ShouldLog(conn[c].tick.level)
              THEN /\ Goto(c, "send", [conn[c].tick EXCEPT !.event = "none"])
                   /\ UNCHANGED db
              ELSE \E outcome \in StorageOutcomes :
                     /\ db' = save_event(db, outcome)
                     /\ IF outcome = "ok"
                        THEN Goto(c, IF engine = "app" THEN "send" ELSE "logged",
                                  [conn[c].tick EXCEPT !.event = "saved"])
                        ELSE Goto(c, IF engine = "app" THEN "rerun" ELSE "failed",
                                  [conn[c].tick EXCEPT !.event = "failed"])
    /\ UNCHANGED <<engine, windows, wallclock, book>>
    /\ UNCHANGED unitVars

(* maybe_notify(patient_id, level, payload)                                 *)
Notify ==
    /\ pc = "server"
    /\ \E c \in DOMAIN conn :
           /\ CanRun(c)
           /\ conn[c].pc = "logged"
           /\ \E delivery \in DeliveryOutcomes :
                  LET r == maybe_notify(conn[c].tick.level, delivery)
                      how == IF ~r.posted THEN "skipped"
                             ELSE IF delivery = "ok" THEN "delivered" ELSE "failed"
                  IN  Goto(c, IF r.raised THEN "failed" ELSE "send",
                           [conn[c].tick EXCEPT !.notify = how])
    /\ UNCHANGED <<engine, windows, wallclock, db, book>>
    /\ UNCHANGED unitVars

(* await ws.send_text(json.dumps(payload)), which raises                    *)
(* WebSocketDisconnect when the client has gone; the app renders the page.  *)
Send ==
    /\ pc = "server"
    /\ \E c \in DOMAIN conn :
           /\ CanRun(c)
           /\ conn[c].pc = "send"
           /\ \E outcome \in IF engine = "app" THEN {"ok"} ELSE SendOutcomes :
                  IF outcome = "ok"
                  THEN Goto(c, IF engine = "app" THEN "rerun" ELSE "sleep",
                            [conn[c].tick EXCEPT !.sent = TRUE])
                  ELSE Goto(c, "closed", conn[c].tick)
    /\ UNCHANGED <<engine, windows, wallclock, db, book>>
    /\ UNCHANGED unitVars

(* await asyncio.sleep(1.0) returns: the loop starts its next round.        *)
Sleep ==
    /\ pc = "server"
    /\ book.ticks < MaxTicks
    /\ \E c \in DOMAIN conn :
           /\ CanRun(c)
           /\ conn[c].pc = "sleep"
           /\ Goto(c, "tick", conn[c].tick)
    /\ book' = [book EXCEPT !.ticks = @ + 1]
    /\ UNCHANGED <<engine, windows, wallclock, db>>
    /\ UNCHANGED unitVars

NextServer ==
    \/ Accept \/ Lookup \/ RejectUnknown \/ Rerun
    \/ TickPush \/ TickEvaluate \/ PersistVitals \/ LogEvent \/ Notify
    \/ Send \/ Sleep

SpecServer == InitServer /\ [][NextServer]_vars

----------------------------------------------------------------------------
(* Properties of the service (under SpecServer)                             *)

(* No tick is under way: every connection waits in an await, or has ended.  *)
Quiescent == pc = "server" /\ running = 0

(* Connection c has left the persist block of a tick, by its end or by an   *)
(* exception, and has not started its next round.                           *)
PastPersist(c) ==
    /\ conn[c].tick.level # "none"
    /\ conn[c].pc \in {"send", "sleep", "rerun", "closed", "failed"}

C12_NotifyFailureSwallowed ==
    pc = "server" =>
        \A c \in DOMAIN conn :
            conn[c].tick.notify = "failed" =>
                /\ conn[c].tick.event = "saved"
                /\ db.events >= 1
                /\ conn[c].pc \in {"send", "sleep", "tick", "closed"}
                /\ conn[c].pc \in {"sleep", "tick"} => conn[c].tick.sent
                /\ conn[c].pc = "closed" => ~conn[c].tick.sent

(* C12's case: a tick whose notify call failed was sent, and the loop has   *)
(* started its next round.                                                  *)
C12_Witness ==
    /\ pc = "server"
    /\ \E c \in DOMAIN conn :
           /\ conn[c].tick.notify = "failed"
           /\ conn[c].tick.level \in {"orange", "red"}
           /\ conn[c].tick.sent
           /\ conn[c].pc = "tick"

(* C13 as claimed: on a tick whose vital record or event could not be saved *)
(* the result is still delivered and the connection goes on.                *)
C13_StorageErrorIsLocal ==
    pc = "server" =>
        \A c \in DOMAIN conn :
            (conn[c].tick.vital = "failed" \/ conn[c].tick.event = "failed") =>
                /\ conn[c].pc \notin Ended
                /\ conn[c].pc \in Awaits => conn[c].tick.sent

(* C14: between a tick's push and its rate computation no other push        *)
(* reaches the window: the event loop stays with the connection, and the    *)
(* newest sample rates_per_min reads is the one the tick pushed and         *)
(* classifies.                                                              *)
C14_TickSeesItsOwnSample ==
    pc = "server" =>
        \A c \in DOMAIN conn :
            LET pid == conn[c].patient_id
            IN  /\ conn[c].pc = "pushed" =>
                       /\ running = c
                       /\ Len(book.pushes[pid]) = conn[c].tick.seq
                       /\ windows[pid][Len(windows[pid])] = conn[c].tick.sample
                /\ conn[c].tick.level # "none" =>
                       /\ conn[c].tick.seen = conn[c].tick.seq
                       /\ conn[c].tick.newest = conn[c].tick.sample

(* C14's case: two connections for the same patient share its window and    *)
(* have both evaluated a tick, one after the other.                         *)
C14_Witness ==
    /\ pc = "server"
    /\ engine = "backend"
    /\ conn[1].patient_id = conn[2].patient_id
    /\ conn[1].tick.level # "none"
    /\ conn[2].tick.level # "none"
    /\ conn[1].tick.seq # conn[2].tick.seq
    /\ Len(windows[conn[1].patient_id]) = 2

(* The last n entries of a sequence.                                        *)
LastOf(seq, n) == SubSeq(seq, Len(seq) - n + 1, Len(seq))

(* Every patient that was pushed for has a window, and every window holds   *)
(* the last min(k, maxlen) samples pushed for its patient.                  *)
WindowsHoldLastPushes ==
    pc = "server" =>
        /\ \A pid \in DOMAIN Patients : book.pushes[pid] # <<>> => pid \in DOMAIN windows
        /\ \A pid \in DOMAIN windows :
               windows[pid] = LastOf(book.pushes[pid], Min(Len(book.pushes[pid]), WindowMaxlen))

(* A step keeps every window, and changes only the window of the patient    *)
(* whose tick pushes in that step.                                          *)
WindowsFrame ==
    pc = "server" =>
        \A pid \in DOMAIN windows :
            /\ pid \in DOMAIN windows'
            /\ windows'[pid] # windows[pid] =>
                   \E c \in DOMAIN conn :
                       /\ conn[c].patient_id = pid
                       /\ conn[c].pc = "tick"
                       /\ conn'[c].pc = "pushed"

(* C15: a patient's window is created on the patient's first contact and    *)
(* never replaced; after any interleaved ticks it holds the last            *)
(* min(k, maxlen) samples pushed for that patient; a tick for one patient   *)
(* leaves every other window unchanged.                                     *)
C15_WindowsIndependent == []WindowsHoldLastPushes /\ [][WindowsFrame]_vars

(* C15's case: ticks for P001, P002 and P001 again, by two connections.     *)
C15_Witness ==
    /\ pc = "server"
    /\ engine = "backend"
    /\ DOMAIN windows = {"P001", "P002"}
    /\ Len(windows["P001"]) = 2
    /\ Len(windows["P002"]) = 1
    /\ book.pushes["P002"][1].t > book.pushes["P001"][1].t
    /\ book.pushes["P002"][1].t < book.pushes["P001"][2].t

====
